---- MODULE Spec2Model ----
(***************************************************************************)
(* Model of the GitHub MCP server (shibdad/github-mcp-server).             *)
(*                                                                         *)
(* The repository holds three variants of the server program:              *)
(*   "index"    src/index.js            clone, status, list, info, search  *)
(*   "part_000" src/unnamed/part_000    clone, status, commit, push,       *)
(*                                      create, list, info                 *)
(*   "part_001" src/unnamed/part_001    clone, status, list (placeholder)  *)
(* The variable `variant` fixes which program is running.                  *)
(*                                                                         *)
(* JavaScript strings are modelled as sequences of lexemes (TLA+ strings), *)
(* so that a template literal is a concatenation, String.includes is a     *)
(* contiguous-subsequence test and URL parsing is a function of the        *)
(* lexemes.                                                                *)
(***************************************************************************)
EXTENDS Integers, Sequences, FiniteSets, TLC

VARIABLES variant, GITHUB_TOKEN, inflight, step, stderr, launch

vars == <<variant, GITHUB_TOKEN, inflight, step, stderr, launch>>

(***************************************************************************)
(* Bounds                                                                  *)
(***************************************************************************)
\* number of tool invocations the host may have outstanding at once
MaxInFlight == 2

Slots == 1..MaxInFlight

Variants == {"index", "part_000", "part_001"}

(***************************************************************************)
(* String helpers (JavaScript String operations on lexeme sequences)       *)
(***************************************************************************)
\* String.prototype.includes
Includes(s, sub) ==
    \E i \in 0..(Len(s) - Len(sub)) :
        \A j \in 1..Len(sub) : s[i + j] = sub[j]

StartsWith(s, pre) ==
    /\ Len(pre) <= Len(s)
    /\ \A j \in 1..Len(pre) : s[j] = pre[j]

EndsWith(s, suf) ==
    /\ Len(suf) <= Len(s)
    /\ \A j \in 1..Len(suf) : s[Len(s) - Len(suf) + j] = suf[j]

RECURSIVE TrimStart(_)
TrimStart(s) ==
    IF s # <<>> /\ Head(s) = " " THEN TrimStart(Tail(s)) ELSE s

RECURSIVE TrimEnd(_)
TrimEnd(s) ==
    IF s # <<>> /\ s[Len(s)] = " " THEN TrimEnd(SubSeq(s, 1, Len(s) - 1)) ELSE s

\* String.prototype.trim
Trim(s) == TrimEnd(TrimStart(s))

\* Array.prototype.join over a sequence of strings
RECURSIVE Join(_, _)
Join(parts, sep) ==
    IF parts = <<>> THEN <<>>
    ELSE IF Len(parts) = 1 THEN parts[1]
    ELSE parts[1] \o sep \o Join(Tail(parts), sep)

\* message.replace(/"/g, '\\"')
RECURSIVE EscapeQuotes(_)
EscapeQuotes(s) ==
    IF s = <<>> THEN <<>>
    ELSE (IF Head(s) = "\"" THEN <<"\\", "\"">> ELSE <<Head(s)>>)
         \o EscapeQuotes(Tail(s))

(***************************************************************************)
(* Parameters of an invocation: a function from the names of the           *)
(* parameters the caller supplied to their values.  A name outside the     *)
(* domain is an omitted parameter (undefined in the handler).              *)
(***************************************************************************)
Has(params, name) == name \in DOMAIN params

\* `x || dflt` for a string parameter: undefined and '' are both falsy
StrOr(params, name, dflt) ==
    IF Has(params, name) /\ params[name] # <<>> THEN params[name] ELSE dflt

\* destructuring default `{ x = dflt }`: only undefined takes the default
Default(params, name, dflt) ==
    IF Has(params, name) THEN params[name] ELSE dflt

\* `${x}` for a parameter: an omitted one interpolates as "undefined"
Arg(params, name) ==
    IF Has(params, name) THEN params[name] ELSE <<"undefined">>

\* the credential value held by the process ('' when not configured)
NoToken == <<>>
TokenValue == <<"ghp_SECRET">>
Tokens == {NoToken, TokenValue}

(***************************************************************************)
(* WHATWG URL, as used by the git-clone handler: new URL(url),             *)
(* urlObj.protocol, urlObj.username = ..., urlObj.toString()               *)
(***************************************************************************)
\* lexemes that the URL parser accepts as a scheme followed by "//"
SchemeLexemes == {"https://", "HTTPS://", "http://"}

\* the parser lower-cases the scheme
ProtocolOf(lex) ==
    CASE lex = "https://" -> "https:"
      [] lex = "HTTPS://" -> "https:"
      [] lex = "http://"  -> "http:"

\* the parser lower-cases the host
LowerHost(h) ==
    CASE h = "GITHUB.COM" -> "github.com"
      [] OTHER -> h

SchemeText(protocol) ==
    CASE protocol = "https:" -> "https://"
      [] protocol = "http:"  -> "http://"

\* new URL(url): a parsed URL, or a thrown TypeError for a string that has
\* no scheme (for instance the scp-like git@github.com:o/r, or github.com/o/r)
ParseURL(url) ==
    IF Len(url) >= 2 /\ url[1] \in SchemeLexemes
    THEN LET hasUser == Len(url) >= 4 /\ url[3] = "@"
             hostAt  == IF hasUser THEN 4 ELSE 2
             rest    == SubSeq(url, hostAt + 1, Len(url))
         IN  [ok       |-> TRUE,
              protocol |-> ProtocolOf(url[1]),
              username |-> IF hasUser THEN <<url[2]>> ELSE <<>>,
              host     |-> LowerHost(url[hostAt]),
              pathname |-> IF rest = <<>> THEN <<"/">> ELSE rest]
    ELSE [ok |-> FALSE, message |-> <<"Invalid URL">>]

\* urlObj.toString()
URLToString(u) ==
    <<SchemeText(u.protocol)>>
    \o (IF u.username # <<>> THEN u.username \o <<"@">> ELSE <<>>)
    \o <<u.host>> \o u.pathname

(***************************************************************************)
(* Command Runner                                                          *)
(***************************************************************************)
\* What the child process can do: exit zero with some stdout, exit non-zero
\* with some stderr, or fail to be spawned.
ProcOutcomes ==
    { [kind |-> "exit0",     out |-> <<"stdout-text">>],
      [kind |-> "exitN",     out |-> <<"fatal: ", "stderr-text">>],
      [kind |-> "spawnfail", out |-> <<"spawnSync /bin/sh ENOENT">>] }

\* child_process.execSync(command, {encoding: 'utf8'}): returns stdout, or
\* throws an Error.  For a non-zero exit status the Error's message is
\* "Command failed: " + command + "\n" + stderr; for a spawn failure it is
\* the spawn error's own message.
execSync(command, proc) ==
    CASE proc.kind = "exit0" ->
            [threw |-> FALSE, value |-> proc.out]
      [] proc.kind = "exitN" ->
            [threw |-> TRUE,
             message |-> <<"Command failed: ">> \o command \o <<"\n">> \o proc.out]
      [] proc.kind = "spawnfail" ->
            [threw |-> TRUE, message |-> proc.out]

\* how a call of executeGitCommand completes: it returns a CommandOutcome,
\* or an exception escapes to the calling handler
Return(outcome) == [raised |-> FALSE, outcome |-> outcome, message |-> <<>>]
Raise(message)  == [raised |-> TRUE, outcome |-> [success |-> FALSE],
                    message |-> message]

\* faulty variant: no catch clause, the execSync error escapes
executeGitCommand_noCatch(command, proc) ==
    LET r == execSync(command, proc)
    IN  IF ~r.threw
        THEN Return([success |-> TRUE, output |-> r.value])
        ELSE Raise(r.message)

\* executeGitCommand(command):
\*   try { output = execSync(...); return { success: true, output } }
\*   catch (error) { return { success: false, error: error.message } }
executeGitCommand(command, proc) ==
    LET r == execSync(command, proc)
    IN  IF ~r.threw
        THEN Return([success |-> TRUE, output |-> r.value])
        ELSE Return([success |-> FALSE, error |-> r.message])

\* the environment overrides executeGitCommand passes to the child process
GitEnvOverrides == {"GIT_ASKPASS", "GIT_CONFIG_NOSYSTEM", "GIT_CONFIG_NOGLOBAL"}

\* index.js and part_001 pass the overrides; part_000 passes no env option
ExecEnv(v) == IF v = "part_000" THEN {} ELSE GitEnvOverrides

(***************************************************************************)
(* ToolResult and handler completion                                       *)
(***************************************************************************)
\* return { content: [{ type: "text", text }] }
ToolResult(text) == [kind |-> "result", text |-> text]

\* an exception escaping the handler (the async function's promise rejects)
Thrown(message) == [kind |-> "throw", text |-> message]

(***************************************************************************)
(* git-backed tools                                                        *)
(***************************************************************************)
FailedClone  == <<"Failed to clone repository: ">>
FailedStatus == <<"Failed to get git status: ">>
FailedCommit == <<"Failed to commit changes: ">>
FailedPush   == <<"Failed to push changes: ">>

\* git-clone, index.js and part_001: the URL handed to git.  The token is
\* embedded when it is set, the url string contains "github.com" and the
\* parsed protocol is https:.  new URL(url) is outside any try block.
\* (url.includes on an omitted url is a TypeError as well.)
cloneUrlOf(token, params) ==
    IF token # <<>> /\ ~Has(params, "url")
    THEN [threw |-> TRUE,
          value |-> <<"Cannot read properties of undefined (reading 'includes')">>]
    ELSE LET url == Arg(params, "url") IN
    IF token # <<>> /\ Includes(url, <<"github.com">>)
    THEN LET urlObj == ParseURL(url)
         IN  IF ~urlObj.ok
             THEN [threw |-> TRUE, value |-> urlObj.message]
             ELSE IF urlObj.protocol = "https:"
                  THEN [threw |-> FALSE,
                        value |-> URLToString([urlObj EXCEPT !.username = token])]
                  ELSE [threw |-> FALSE, value |-> url]
    ELSE [threw |-> FALSE, value |-> url]

\* git-clone, part_000: the caller's url is used as it is
cloneUrlOf_000(token, params) == [threw |-> FALSE, value |-> Arg(params, "url")]

\* `git clone ${cloneUrl} ${dir}`.trim()
cloneCommand(cloneUrl, params) ==
    Trim(<<"git clone", " ">> \o cloneUrl \o <<" ">> \o StrOr(params, "directory", <<>>))

\* `cd ${dir} && git status`
statusCommand(params) ==
    <<"cd", " ">> \o StrOr(params, "directory", <<".">>) \o <<" && ", "git status">>

\* git-commit: commands.join(' && ')
commitCommand(params) ==
    LET dir      == StrOr(params, "directory", <<".">>)
        add_all  == Default(params, "add_all", TRUE)
        commands == <<(<<"cd", " ">> \o dir)>>
                    \o (IF add_all THEN <<(<<"git add .">>)>> ELSE <<>>)
                    \o <<(<<"git commit -m ", "\"">>
                          \o EscapeQuotes(Arg(params, "message")) \o <<"\"">>)>>
    IN  Join(commands, <<" && ">>)

\* `cd ${dir} && git push ${remote} ${branch}`
pushCommand(params) ==
    <<"cd", " ">> \o StrOr(params, "directory", <<".">>)
    \o <<" && ", "git push", " ">> \o Default(params, "remote", <<"origin">>)
    \o <<" ">> \o Default(params, "branch", <<"main">>)

GitTools == {"git-clone", "git-status", "git-commit", "git-push"}

\* The synchronous part of a git-backed handler up to its call of
\* executeGitCommand: the command line, or the exception that escapes.
GitPrepare(v, tool, token, params) ==
    CASE tool = "git-clone" ->
            LET c == IF v = "part_000" THEN cloneUrlOf_000(token, params)
                     ELSE cloneUrlOf(token, params)
            IN  IF c.threw
                THEN [threw |-> TRUE, message |-> c.value,
                      cloneUrl |-> <<>>, command |-> <<>>]
                ELSE [threw |-> FALSE, message |-> <<>>,
                      cloneUrl |-> c.value,
                      command |-> cloneCommand(c.value, params)]
      [] tool = "git-status" ->
            [threw |-> FALSE, message |-> <<>>, cloneUrl |-> <<>>,
             command |-> statusCommand(params)]
      [] tool = "git-commit" ->
            \* message.replace on an omitted message is a TypeError
            IF ~Has(params, "message")
            THEN [threw |-> TRUE,
                  message |-> <<"Cannot read properties of undefined (reading 'replace')">>,
                  cloneUrl |-> <<>>, command |-> <<>>]
            ELSE [threw |-> FALSE, message |-> <<>>, cloneUrl |-> <<>>,
                  command |-> commitCommand(params)]
      [] tool = "git-push" ->
            [threw |-> FALSE, message |-> <<>>, cloneUrl |-> <<>>,
             command |-> pushCommand(params)]

\* faulty variant: the success text reports cloneUrl instead of url
cloneText_reportsCloneUrl(locals, result) ==
    IF result.success
    THEN <<"Successfully cloned repository from ">> \o locals.cloneUrl
         \o (IF StrOr(locals.params, "directory", <<>>) # <<>>
             THEN <<" to ">> \o locals.params["directory"] ELSE <<>>)
         \o <<".">>
    ELSE FailedClone \o result.error

\* git-clone: the text returned for a CommandOutcome.  `locals` holds the
\* handler's variables: params (url, directory), cloneUrl and command.
cloneText(locals, result) ==
    IF result.success
    THEN <<"Successfully cloned repository from ">> \o Arg(locals.params, "url")
         \o (IF StrOr(locals.params, "directory", <<>>) # <<>>
             THEN <<" to ">> \o locals.params["directory"] ELSE <<>>)
         \o <<".">>
    ELSE FailedClone \o result.error

statusText(params, result) ==
    IF result.success
    THEN <<"Git status for ">> \o StrOr(params, "directory", <<"current directory">>)
         \o <<":\n">> \o result.output
    ELSE FailedStatus \o result.error

commitText(params, result) ==
    IF result.success
    THEN <<"Successfully committed changes:\n">> \o result.output
    ELSE FailedCommit \o result.error

\* faulty variant: the failure text keeps only the first line of the error
pushText_truncatesError(params, result) ==
    IF result.success
    THEN <<"Successfully pushed changes to ">> \o Default(params, "remote", <<"origin">>)
         \o <<"/">> \o Default(params, "branch", <<"main">>)
         \o <<":\n">> \o result.output
    ELSE FailedPush \o <<Head(result.error)>>

pushText(params, result) ==
    IF result.success
    THEN <<"Successfully pushed changes to ">> \o Default(params, "remote", <<"origin">>)
         \o <<"/">> \o Default(params, "branch", <<"main">>)
         \o <<":\n">> \o result.output
    ELSE FailedPush \o result.error

\* The part of a git-backed handler after executeGitCommand returned
GitFinish(locals, result) ==
    CASE locals.tool = "git-clone"  -> ToolResult(cloneText(locals, result))
      [] locals.tool = "git-status" -> ToolResult(statusText(locals.params, result))
      [] locals.tool = "git-commit" -> ToolResult(commitText(locals.params, result))
      [] locals.tool = "git-push"   -> ToolResult(pushText(locals.params, result))

(***************************************************************************)
(* JavaScript values (parsed JSON) and the operations the handlers apply   *)
(***************************************************************************)
JStr(s)  == [t |-> "string", s |-> s]
JNum(n)  == [t |-> "number", n |-> n]
JBool(b) == [t |-> "boolean", b |-> b]
JNull    == [t |-> "null"]
JUndef   == [t |-> "undefined"]
JObj(f)  == [t |-> "object", fields |-> f]
JArr(e)  == [t |-> "array", elems |-> e]

\* truthiness, as tested by `!x`, `x || y` and `x ? y : z`
Truthy(v) ==
    CASE v.t = "string"  -> v.s # <<>>
      [] v.t = "number"  -> v.n # 0
      [] v.t = "boolean" -> v.b
      [] v.t \in {"null", "undefined"} -> FALSE
      [] OTHER -> TRUE

\* `${v}` in a template literal
Text(v) ==
    CASE v.t = "string"    -> v.s
      [] v.t = "number"    -> <<ToString(v.n)>>
      [] v.t = "boolean"   -> IF v.b THEN <<"true">> ELSE <<"false">>
      [] v.t = "null"      -> <<"null">>
      [] v.t = "undefined" -> <<"undefined">>
      [] v.t = "object"    -> <<"[object Object]">>
      [] OTHER             -> <<"[array]">>

\* v.name for a value that is neither null nor undefined
Get(v, name) ==
    IF v.t = "object" /\ name \in DOMAIN v.fields THEN v.fields[name] ELSE JUndef

\* reading a property of null or undefined throws a TypeError
Nullish(v) == v.t \in {"null", "undefined"}

\* new Date(v).toDateString()
toDateString(v) ==
    CASE v.t = "string" /\ v.s = <<"2020-01-02T03:04:05Z">> -> <<"Thu Jan 02 2020">>
      [] v.t = "string" /\ v.s = <<"2021-06-07T08:09:10Z">> -> <<"Mon Jun 07 2021">>
      [] v.t = "null" -> <<"Thu Jan 01 1970">>
      [] OTHER -> <<"Invalid Date">>

RepoFull ==
    JObj([name |-> JStr(<<"r">>), full_name |-> JStr(<<"o/r">>),
          description |-> JStr(<<"a repository">>), private |-> JBool(TRUE),
          stargazers_count |-> JNum(5), forks_count |-> JNum(1),
          watchers_count |-> JNum(5), open_issues_count |-> JNum(0),
          created_at |-> JStr(<<"2020-01-02T03:04:05Z">>),
          updated_at |-> JStr(<<"2021-06-07T08:09:10Z">>),
          language |-> JStr(<<"JavaScript">>),
          license |-> JObj([name |-> JStr(<<"MIT License">>)]),
          html_url |-> JStr(<<"https://github.com/o/r">>)])

\* a repository whose optional fields are null
RepoMin ==
    JObj([name |-> JStr(<<"m">>), full_name |-> JStr(<<"o/m">>),
          description |-> JNull, private |-> JBool(FALSE),
          stargazers_count |-> JNum(0), forks_count |-> JNum(0),
          watchers_count |-> JNum(0), open_issues_count |-> JNum(0),
          created_at |-> JStr(<<"2020-01-02T03:04:05Z">>),
          updated_at |-> JStr(<<"2020-01-02T03:04:05Z">>),
          language |-> JNull, license |-> JNull,
          html_url |-> JStr(<<"https://github.com/o/m">>)])

\* Response bodies the remote may send, as raw text
Bodies ==
    { <<>>, <<"<html>">>, <<"null">>, <<"{}">>, <<"[]">>,
      <<"{repo}">>, <<"{repo-min}">>, <<"[{repo},{repo-min}]">>,
      <<"{items:[{repo},{repo-min}]}">>, <<"{items:[]}">> }

\* the bodies tried with a status other than 200
OtherBodies == { <<>>, <<"<html>">>, <<"{}">> }

\* JSON.parse(raw): the parsed value, or a thrown SyntaxError
JSONparse(raw) ==
    CASE raw = <<"null">>      -> [ok |-> TRUE, value |-> JNull]
      [] raw = <<"{}">>        -> [ok |-> TRUE, value |-> JObj(<<>>)]
      [] raw = <<"[]">>        -> [ok |-> TRUE, value |-> JArr(<<>>)]
      [] raw = <<"{repo}">>    -> [ok |-> TRUE, value |-> RepoFull]
      [] raw = <<"{repo-min}">> -> [ok |-> TRUE, value |-> RepoMin]
      [] raw = <<"[{repo},{repo-min}]">> ->
            [ok |-> TRUE, value |-> JArr(<<RepoFull, RepoMin>>)]
      [] raw = <<"{items:[{repo},{repo-min}]}">> ->
            [ok |-> TRUE, value |-> JObj([items |-> JArr(<<RepoFull, RepoMin>>)])]
      [] raw = <<"{items:[]}">> ->
            [ok |-> TRUE, value |-> JObj([items |-> JArr(<<>>)])]
      [] raw = <<>> ->
            [ok |-> FALSE, message |-> <<"Unexpected end of JSON input">>]
      [] OTHER ->
            [ok |-> FALSE, message |-> <<"Unexpected token < in JSON">>]

(***************************************************************************)
(* API Client                                                              *)
(***************************************************************************)
Statuses == {200, 201, 204, 404}

\* How an HTTPS exchange can end: a socket error, or a completed response
HttpOutcomes ==
    { [kind |-> "error", status |-> 0, body |-> <<"ECONNRESET">>] }
    \cup { [kind |-> "response", status |-> 200, body |-> b] : b \in Bodies }
    \cup { [kind |-> "response", status |-> st, body |-> b] :
             st \in Statuses \ {200}, b \in OtherBodies }

\* the request options githubApiRequest builds
apiRequestOptions(token, endpoint, method, data) ==
    [hostname      |-> "api.github.com",
     path          |-> endpoint,
     method        |-> method,
     authorization |-> IF token # <<>> THEN <<"token ">> \o token ELSE <<>>,
     data          |-> data]

\* lines githubApiRequest of part_000 writes to the diagnostic stream when
\* it issues the request
apiRequestLog_000(token, endpoint) ==
    << (<<"Making GitHub API request to: ">> \o endpoint) >>
    \o (IF token # <<>> THEN << <<"Using GitHub token for authentication">> >>
        ELSE <<>>)

Resolved(value, log) ==
    [resolved |-> TRUE, value |-> value, message |-> <<>>, log |-> log]

Rejected(message, log) ==
    [resolved |-> FALSE, value |-> JUndef, message |-> message, log |-> log]

\* githubApiRequest of index.js: how the promise settles
githubApiRequest(http) ==
    IF http.kind = "error"
    THEN Rejected(<<"GitHub API request failed: ">> \o http.body, <<>>)
    ELSE IF http.status # 200
    THEN Rejected(<<"GitHub API returned ", ToString(http.status), ": ">>
                  \o http.body, <<>>)
    ELSE LET parsedData == JSONparse(http.body)
         IN  IF parsedData.ok
             THEN Resolved(parsedData.value, <<>>)
             ELSE Rejected(<<"Failed to parse GitHub API response: ">>
                           \o parsedData.message, <<>>)

\* githubApiRequest of part_000: how the promise settles, and what it logs
githubApiRequest_000(http) ==
    IF http.kind = "error"
    THEN Rejected(http.body, << (<<"API request error: ">> \o http.body) >>)
    ELSE LET statusLine == <<"API response status: ", ToString(http.status)>>
         IN  IF http.status >= 400
             THEN Rejected(<<"GitHub API returned ", ToString(http.status), ": ">>
                           \o http.body,
                           <<statusLine, (<<"API error: ">> \o http.body)>>)
             ELSE LET parsedData == IF http.body # <<>> THEN JSONparse(http.body)
                                    ELSE [ok |-> TRUE, value |-> JObj(<<>>)]
                  IN  IF parsedData.ok
                      THEN Resolved(parsedData.value, <<statusLine>>)
                      ELSE Rejected(<<"Failed to parse response: ">>
                                    \o parsedData.message,
                                    <<statusLine,
                                      (<<"Error parsing response: ">>
                                       \o parsedData.message)>>)

Settle(v, http) ==
    IF v = "part_000" THEN githubApiRequest_000(http) ELSE githubApiRequest(http)

(***************************************************************************)
(* API-backed tools                                                        *)
(***************************************************************************)
TokenMissingList ==
    <<"GitHub token not configured. Please set the GITHUB_TOKEN environment variable to access repositories.">>
TokenMissing ==
    <<"GitHub token not configured. Please set the GITHUB_TOKEN environment variable.">>

FailedList   == <<"Failed to list repositories: ">>
FailedInfo   == <<"Failed to get repository details: ">>
FailedSearch == <<"Failed to search repositories: ">>
FailedCreate == <<"Failed to create repository: ">>

ApiTools == {"github-list-repos", "github-repo-info", "github-search-repos",
             "github-create-repo"}

NoRequest == [hostname |-> "none", path |-> <<>>, method |-> "none",
              authorization |-> <<>>, data |-> <<>>]
NoResult  == [kind |-> "none", text |-> <<>>]

\* the handler returned without awaiting anything
Returned(text, log) ==
    [done |-> TRUE, result |-> ToolResult(text), request |-> NoRequest, log |-> log]

\* the handler issued a request and is suspended at its await
Awaiting(request, log) ==
    [done |-> FALSE, result |-> NoResult, request |-> request, log |-> log]

\* encodeURIComponent(query)
RECURSIVE encodeURIComponent(_)
encodeURIComponent(s) ==
    IF s = <<>> THEN <<>>
    ELSE <<(IF Head(s) = " " THEN "%20" ELSE Head(s))>>
         \o encodeURIComponent(Tail(s))

listEndpoint(params) ==
    <<"/user/repos?sort=updated&per_page=", ToString(Default(params, "limit", 10))>>

\* faulty variant: the credential test is missing
listStart_noCredentialTest(token, params) ==
    Awaiting(apiRequestOptions(token, listEndpoint(params), "GET", <<>>), <<>>)

\* github-list-repos of index.js, up to its await
listStart(token, params) ==
    IF token = <<>> THEN Returned(TokenMissingList, <<>>)
    ELSE Awaiting(apiRequestOptions(token, listEndpoint(params), "GET", <<>>), <<>>)

\* github-list-repos of part_000, up to its await
listStart_000(token, params) ==
    LET called == <<"github-list-repos tool called with limit=",
                    ToString(Default(params, "limit", 10))>>
    IN  IF token = <<>>
        THEN Returned(TokenMissingList, <<called, <<"No GitHub token available">> >>)
        ELSE Awaiting(apiRequestOptions(token, listEndpoint(params), "GET", <<>>),
                      <<called, <<"Making API request to list repos">> >>
                      \o apiRequestLog_000(token, listEndpoint(params)))

\* the placeholder list of part_001
ExampleRepos ==
    << <<"example-repo-1: Example repository 1">>,
       <<"example-repo-2: Example repository 2">>,
       <<"example-repo-3: Example repository 3">>,
       <<"example-repo-4: Example repository 4">>,
       <<"example-repo-5: Example repository 5">> >>

\* github-list-repos of part_001: no request is ever made
listStart_001(token, params) ==
    IF token = <<>> THEN Returned(TokenMissingList, <<>>)
    ELSE LET limit == Default(params, "limit", 5)
             n     == IF limit > Len(ExampleRepos) THEN Len(ExampleRepos) ELSE limit
             repos == SubSeq(ExampleRepos, 1, n)
         IN  Returned(<<"GitHub repositories:\n">>
                      \o Join([i \in 1..Len(repos) |->
                                 <<ToString(i), ". ">> \o repos[i]], <<"\n">>),
                      <<>>)

infoEndpoint(params) == <<"/repos/">> \o Arg(params, "repo")

\* github-repo-info of index.js: no credential test
infoStart(token, params) ==
    Awaiting(apiRequestOptions(token, infoEndpoint(params), "GET", <<>>), <<>>)

\* github-repo-info of part_000: returns early without a credential
infoStart_000(token, params) ==
    IF token = <<>> THEN Returned(TokenMissing, <<>>)
    ELSE Awaiting(apiRequestOptions(token, infoEndpoint(params), "GET", <<>>),
                  apiRequestLog_000(token, infoEndpoint(params)))

searchEndpoint(params) ==
    <<"/search/repositories?q=">> \o encodeURIComponent(Arg(params, "query"))
    \o <<"&per_page=", ToString(Default(params, "limit", 10))>>

\* github-search-repos (index.js only)
searchStart(token, params) ==
    Awaiting(apiRequestOptions(token, searchEndpoint(params), "GET", <<>>), <<>>)

createPayload(params) ==
    [name        |-> Arg(params, "name"),
     description |-> Default(params, "description", <<>>),
     private     |-> Default(params, "private", FALSE),
     auto_init   |-> Default(params, "auto_init", TRUE)]

\* github-create-repo (part_000 only)
createStart_000(token, params) ==
    IF token = <<>> THEN Returned(TokenMissing, <<>>)
    ELSE Awaiting(apiRequestOptions(token, <<"/user/repos">>, "POST",
                                    createPayload(params)),
                  apiRequestLog_000(token, <<"/user/repos">>))

\* The synchronous part of an API-backed handler, up to its first await
APIStart(v, tool, token, params) ==
    CASE tool = "github-list-repos" ->
            (CASE v = "index"    -> listStart(token, params)
               [] v = "part_000" -> listStart_000(token, params)
               [] v = "part_001" -> listStart_001(token, params))
      [] tool = "github-repo-info" ->
            IF v = "part_000" THEN infoStart_000(token, params)
            ELSE infoStart(token, params)
      [] tool = "github-search-repos" -> searchStart(token, params)
      [] tool = "github-create-repo"  -> createStart_000(token, params)

\* `x || dflt` inside a template literal
TextOr(v, dflt) == IF Truthy(v) THEN Text(v) ELSE dflt

\* one line of the list-repositories output (i is the 0-based map index + 1)
repoLine(repo, i) ==
    <<ToString(i), ". ">> \o Text(Get(repo, "name")) \o <<": ">>
    \o TextOr(Get(repo, "description"), <<"No description">>)
    \o <<" (">>
    \o (IF Truthy(Get(repo, "private")) THEN <<"Private">> ELSE <<"Public">>)
    \o <<")">>

\* the body of the try block of github-list-repos after the await:
\* the text it returns, or the TypeError it throws
listBody(repos, emptyText) ==
    IF ~Truthy(repos) \/ (repos.t = "array" /\ repos.elems = <<>>)
    THEN [threw |-> FALSE, text |-> emptyText]
    ELSE IF repos.t # "array"
    THEN [threw |-> TRUE, text |-> <<"repos.map is not a function">>]
    ELSE [threw |-> FALSE,
          text |-> <<"GitHub repositories:\n">>
                   \o Join([i \in 1..Len(repos.elems) |-> repoLine(repos.elems[i], i)],
                           <<"\n">>)]

\* github-list-repos of index.js after the await, with its catch clause
listFinish(settled) ==
    IF ~settled.resolved
    THEN [result |-> ToolResult(FailedList \o settled.message), log |-> <<>>]
    ELSE LET b == listBody(settled.value, <<"No repositories found.">>)
         IN  [result |-> ToolResult(IF b.threw THEN FailedList \o b.text ELSE b.text),
              log |-> <<>>]

\* github-list-repos of part_000 after the await, with its catch clause
listFinish_000(settled) ==
    IF ~settled.resolved
    THEN [result |-> ToolResult(FailedList \o settled.message),
          log |-> << (<<"Error in github-list-repos: ">> \o settled.message) >>]
    ELSE LET repos    == settled.value
             n        == IF repos.t = "array" THEN Len(repos.elems) ELSE 0
             received == <<"Received ", ToString(n), " repositories from API">>
             b        == listBody(repos, <<"No repositories found for your account.">>)
         IN  IF b.threw
             THEN [result |-> ToolResult(FailedList \o b.text),
                   log |-> <<received, (<<"Error in github-list-repos: ">> \o b.text)>>]
             ELSE [result |-> ToolResult(b.text), log |-> <<received>>]

\* faulty variant: the optional fields are interpolated without a fallback
infoDetails_noFallback(repoDetails) ==
    Join(<< <<"Repository: ">>   \o Text(Get(repoDetails, "full_name")),
            <<"Description: ">>  \o Text(Get(repoDetails, "description")),
            <<"Stars: ">>        \o Text(Get(repoDetails, "stargazers_count")),
            <<"Forks: ">>        \o Text(Get(repoDetails, "forks_count")),
            <<"Watchers: ">>     \o Text(Get(repoDetails, "watchers_count")),
            <<"Open Issues: ">>  \o Text(Get(repoDetails, "open_issues_count")),
            <<"Created: ">>      \o toDateString(Get(repoDetails, "created_at")),
            <<"Last Updated: ">> \o toDateString(Get(repoDetails, "updated_at")),
            <<"Language: ">>     \o Text(Get(repoDetails, "language")),
            <<"License: ">>      \o Text(Get(Get(repoDetails, "license"), "name")),
            <<"Visibility: ">>   \o (IF Truthy(Get(repoDetails, "private"))
                                     THEN <<"Private">> ELSE <<"Public">>),
            <<"URL: ">>          \o Text(Get(repoDetails, "html_url")) >>,
         <<"\n">>)

\* the 12 lines of github-repo-info
infoDetails(repoDetails) ==
    Join(<< <<"Repository: ">>   \o Text(Get(repoDetails, "full_name")),
            <<"Description: ">>  \o TextOr(Get(repoDetails, "description"), <<"No description">>),
            <<"Stars: ">>        \o Text(Get(repoDetails, "stargazers_count")),
            <<"Forks: ">>        \o Text(Get(repoDetails, "forks_count")),
            <<"Watchers: ">>     \o Text(Get(repoDetails, "watchers_count")),
            <<"Open Issues: ">>  \o Text(Get(repoDetails, "open_issues_count")),
            <<"Created: ">>      \o toDateString(Get(repoDetails, "created_at")),
            <<"Last Updated: ">> \o toDateString(Get(repoDetails, "updated_at")),
            <<"Language: ">>     \o TextOr(Get(repoDetails, "language"), <<"Not specified">>),
            <<"License: ">>      \o (IF Truthy(Get(repoDetails, "license"))
                                     THEN Text(Get(Get(repoDetails, "license"), "name"))
                                     ELSE <<"Not specified">>),
            <<"Visibility: ">>   \o (IF Truthy(Get(repoDetails, "private"))
                                     THEN <<"Private">> ELSE <<"Public">>),
            <<"URL: ">>          \o Text(Get(repoDetails, "html_url")) >>,
         <<"\n">>)

\* github-repo-info after the await, with its catch clause
infoFinish(settled) ==
    [result |->
        ToolResult(
            IF ~settled.resolved THEN FailedInfo \o settled.message
            ELSE IF Nullish(settled.value)
            THEN FailedInfo \o <<"Cannot read properties of null (reading 'full_name')">>
            ELSE infoDetails(settled.value)),
     log |-> <<>>]

\* one line of the search-repositories output (the star emoji U+2B50 of the
\* source is written "star")
searchLine(repo, i) ==
    <<ToString(i), ". ">> \o Text(Get(repo, "full_name")) \o <<": ">>
    \o TextOr(Get(repo, "description"), <<"No description">>)
    \o <<" (star ">> \o Text(Get(repo, "stargazers_count")) \o <<")">>

\* faulty variant: a missing items list is not tested before .length
searchFinish_noMissingTest(params, settled) ==
    [result |->
        ToolResult(
            IF ~settled.resolved THEN FailedSearch \o settled.message
            ELSE IF Nullish(settled.value)
            THEN FailedSearch \o <<"Cannot read properties of null (reading 'items')">>
            ELSE LET items == Get(settled.value, "items")
                 IN  IF Nullish(items)
                     THEN FailedSearch
                          \o <<"Cannot read properties of undefined (reading 'length')">>
                     ELSE IF items.t = "array" /\ items.elems = <<>>
                     THEN <<"No repositories found matching \"">> \o Arg(params, "query")
                          \o <<"\".">>
                     ELSE IF items.t # "array"
                     THEN FailedSearch \o <<"searchResults.items.map is not a function">>
                     ELSE <<"GitHub repositories matching \"">> \o Arg(params, "query")
                          \o <<"\":\n">>
                          \o Join([i \in 1..Len(items.elems) |->
                                     searchLine(items.elems[i], i)], <<"\n">>)),
     log |-> <<>>]

\* github-search-repos after the await, with its catch clause
searchFinish(params, settled) ==
    [result |->
        ToolResult(
            IF ~settled.resolved THEN FailedSearch \o settled.message
            ELSE IF Nullish(settled.value)
            THEN FailedSearch \o <<"Cannot read properties of null (reading 'items')">>
            ELSE LET items == Get(settled.value, "items")
                 IN  IF ~Truthy(items) \/ (items.t = "array" /\ items.elems = <<>>)
                     THEN <<"No repositories found matching \"">> \o Arg(params, "query")
                          \o <<"\".">>
                     ELSE IF items.t # "array"
                     THEN FailedSearch \o <<"searchResults.items.map is not a function">>
                     ELSE <<"GitHub repositories matching \"">> \o Arg(params, "query")
                          \o <<"\":\n">>
                          \o Join([i \in 1..Len(items.elems) |->
                                     searchLine(items.elems[i], i)], <<"\n">>)),
     log |-> <<>>]

\* github-create-repo after the await, with its catch clause
createFinish_000(settled) ==
    [result |->
        ToolResult(
            IF ~settled.resolved THEN FailedCreate \o settled.message
            ELSE IF Nullish(settled.value)
            THEN FailedCreate \o <<"Cannot read properties of null (reading 'name')">>
            ELSE <<"Successfully created repository \"">>
                 \o Text(Get(settled.value, "name")) \o <<"\".\nURL: ">>
                 \o Text(Get(settled.value, "html_url"))),
     log |-> <<>>]

\* The part of an API-backed handler that runs once its await settles
APIFinish(v, tool, params, settled) ==
    CASE tool = "github-list-repos" ->
            IF v = "part_000" THEN listFinish_000(settled) ELSE listFinish(settled)
      [] tool = "github-repo-info"    -> infoFinish(settled)
      [] tool = "github-search-repos" -> searchFinish(params, settled)
      [] tool = "github-create-repo"  -> createFinish_000(settled)

(***************************************************************************)
(* Tool registry: server.tool(name, schema, handler)                       *)
(***************************************************************************)
ToolsOf(v) ==
    CASE v = "index" ->
            {"git-clone", "git-status", "github-list-repos", "github-repo-info",
             "github-search-repos"}
      [] v = "part_000" ->
            {"git-clone", "git-status", "git-commit", "git-push",
             "github-create-repo", "github-list-repos", "github-repo-info"}
      [] v = "part_001" ->
            {"git-clone", "git-status", "github-list-repos"}

\* faulty variant: the search query is declared optional
Required_queryOptional(tool) ==
    CASE tool = "git-clone"           -> {"url"}
      [] tool = "git-commit"          -> {"message"}
      [] tool = "github-create-repo"  -> {"name"}
      [] tool = "github-repo-info"    -> {"repo"}
      [] OTHER                        -> {}

\* the parameters a tool's schema declares without .optional()
Required(tool) ==
    CASE tool = "git-clone"           -> {"url"}
      [] tool = "git-commit"          -> {"message"}
      [] tool = "github-create-repo"  -> {"name"}
      [] tool = "github-repo-info"    -> {"repo"}
      [] tool = "github-search-repos" -> {"query"}
      [] OTHER                        -> {}

\* the dispatcher's schema validation of an invocation's arguments
Valid(tool, params) == Required(tool) \subseteq DOMAIN params

(***************************************************************************)
(* Invocations the host may send                                           *)
(***************************************************************************)
NoParams == [x \in {} |-> <<>>]

\* a parameter that is either omitted or takes one of the given values
Opt(name, values) == {NoParams} \cup {name :> val : val \in values}

Both(A, B) == {a @@ b : a \in A, b \in B}

Urls ==
    { <<"https://", "github.com", "/o/r">>,
      <<"http://", "github.com", "/o/r">>,
      <<"https://", "alice", "@", "github.com", "/o/r">>,
      <<"https://", "example.com", "/o/r">>,
      <<"https://", "example.com", "/", "github.com", "/r">>,
      <<"HTTPS://", "GITHUB.COM", "/o/r">>,
      <<"git@", "github.com", ":o/r.git">>,
      <<"https://", "example.com", "/", "ghp_SECRET">> }

Dirs == { <<"repo">> }

\* directory strings tried with git-commit: a plain one, and one that holds
\* a shell operator (the schema is z.string(), any string is accepted)
CommitDirs == Dirs \cup { <<"nosuchdir", " || ", "true">> }

Inputs(tool) ==
    CASE tool = "git-clone"  -> Both(Opt("url", Urls), Opt("directory", Dirs))
      [] tool = "git-status" -> Opt("directory", Dirs)
      [] tool = "git-commit" ->
            Both(Both(Opt("message", {<<"fix">>, <<"say ", "\"", "hi", "\"">>}),
                      Opt("directory", CommitDirs)),
                 Opt("add_all", {TRUE, FALSE}))
      [] tool = "git-push" ->
            Both(Both(Opt("directory", Dirs), Opt("remote", {<<"upstream">>})),
                 Opt("branch", {<<"dev">>}))
      [] tool = "github-create-repo" ->
            Both(Opt("name", {<<"proj">>}), Opt("private", {TRUE}))
      [] tool = "github-list-repos"   -> Opt("limit", {2})
      [] tool = "github-repo-info"    -> Opt("repo", {<<"o/r">>})
      [] tool = "github-search-repos" ->
            Both(Opt("query", {<<"mcp", " ", "server">>}), Opt("limit", {2}))

(***************************************************************************)
(* State                                                                   *)
(*   inflight[s]  the invocation occupying slot s: idle, blocked in        *)
(*                execSync ("exec"), or suspended at its await             *)
(*                ("awaiting")                                             *)
(*   step         what the latest handler step did                         *)
(*   stderr       the lines the latest step wrote to the diagnostic stream *)
(*   launch       how the process was started: the position in start.sh /  *)
(*                index.js start-up, the GITHUB_TOKEN environment variable *)
(*                and the two credential files                             *)
(***************************************************************************)
Idle == [pc |-> "idle"]

NoOutcome == [success |-> FALSE]
NoHttp    == [kind |-> "none", status |-> 0, body |-> <<>>]

NoSettle  == [resolved |-> FALSE, value |-> JUndef, message |-> <<>>,
              log |-> <<>>]

Step(kind, slot, tool, params, command, cloneUrl, spawned, request, outcome, http, settled, result) ==
    [kind |-> kind, slot |-> slot, tool |-> tool, params |-> params,
     command |-> command, cloneUrl |-> cloneUrl, spawned |-> spawned,
     request |-> request, outcome |-> outcome, http |-> http,
     settled |-> settled, result |-> result]

\* the lines written while the module is loaded
startupLog(v, token) ==
    IF v = "part_000"
    THEN << <<"GitHub token ", (IF token # <<>> THEN "is configured"
                                 ELSE "is NOT configured")>> >>
    ELSE IF token # <<>> THEN << <<"GitHub token configured">> >>
    ELSE << <<"No GitHub token provided. Some functionality may be limited.">> >>

(***************************************************************************)
(* Start-up: start.sh and the module-level code of the server              *)
(***************************************************************************)
\* an environment variable: unset, or set to a value
Unset      == [set |-> FALSE, value |-> <<>>]
SetTo(val) == [set |-> TRUE, value |-> val]

\* a file: absent, or a regular file with some content
Absent          == [exists |-> FALSE, content |-> <<>>]
FileOf(content) == [exists |-> TRUE, content |-> content]

\* $(cat file): command substitution removes trailing newlines
RECURSIVE CommandSubst(_)
CommandSubst(content) ==
    IF content # <<>> /\ content[Len(content)] = "\n"
    THEN CommandSubst(SubSeq(content, 1, Len(content) - 1))
    ELSE content

\* faulty variant: the files are consulted only when the variable is empty
tokenFileLookup_envFirst(env, cwdFile, homeFile) ==
    IF env.set /\ env.value # <<>>
    THEN [env |-> env, log |-> <<>>]
    ELSE IF cwdFile.exists
    THEN [env |-> SetTo(CommandSubst(cwdFile.content)),
          log |-> << <<"Using GitHub token from .github_token file">> >>]
    ELSE IF homeFile.exists
    THEN [env |-> SetTo(CommandSubst(homeFile.content)),
          log |-> << <<"Using GitHub token from ~/.github_token file">> >>]
    ELSE [env |-> env,
          log |-> << <<"No GitHub token file found. Some functionality will be limited.">>,
                     <<"To use GitHub API features, create a .github_token file in this directory.">> >>]

\* start.sh, "Check for token in file first": the if / elif / else that
\* exports GITHUB_TOKEN from .github_token, else from $HOME/.github_token,
\* else leaves the environment as it is
tokenFileLookup(env, cwdFile, homeFile) ==
    IF cwdFile.exists
    THEN [env |-> SetTo(CommandSubst(cwdFile.content)),
          log |-> << <<"Using GitHub token from .github_token file">> >>]
    ELSE IF homeFile.exists
    THEN [env |-> SetTo(CommandSubst(homeFile.content)),
          log |-> << <<"Using GitHub token from ~/.github_token file">> >>]
    ELSE [env |-> env,
          log |-> << <<"No GitHub token file found. Some functionality will be limited.">>,
                     <<"To use GitHub API features, create a .github_token file in this directory.">> >>]

\* start.sh, "Verify the token is available": [ -n "$GITHUB_TOKEN" ]
verifyLog(env) ==
    IF env.set /\ env.value # <<>>
    THEN << <<"GitHub token is set">> >>
    ELSE << <<"GitHub token is NOT set">> >>

\* const GITHUB_TOKEN = process.env.GITHUB_TOKEN || ''
readToken(env) == IF env.set THEN env.value ELSE <<>>

\* the launch record of a process that is serving with the given credential
Serving(token) ==
    [pc |-> "serving", via |-> "node",
     env0 |-> IF token # <<>> THEN SetTo(token) ELSE Unset,
     env  |-> IF token # <<>> THEN SetTo(token) ELSE Unset,
     cwdFile |-> Absent, homeFile |-> Absent]

Init ==
    /\ variant \in Variants
    /\ GITHUB_TOKEN \in Tokens
    /\ launch = Serving(GITHUB_TOKEN)
    /\ inflight = [s \in Slots |-> Idle]
    /\ step = Step("init", 0, "none", NoParams, <<>>, <<>>, FALSE, NoRequest,
                   NoOutcome, NoHttp, NoSettle, NoResult)
    /\ stderr = startupLog(variant, GITHUB_TOKEN)

\* faulty variant: the child process is run without blocking (exec instead
\* of execSync)
Blocked_asyncExec == FALSE

\* execSync blocks the only thread: nothing else runs while a child process
\* is running
Blocked == \E s \in Slots : inflight[s].pc = "exec"

IdleSlots == {s \in Slots : inflight[s].pc = "idle"}

\* the slot a newly received invocation occupies
FreeSlot == CHOOSE s \in IdleSlots : \A t \in IdleSlots : s <= t

\* The dispatcher refuses an invocation whose arguments fail validation;
\* the handler is not called.
Reject(tool, params) ==
    /\ ~Blocked
    /\ ~Valid(tool, params)
    /\ step' = Step("rejected", 0, tool, params, <<>>, <<>>, FALSE, NoRequest,
                    NoOutcome, NoHttp, NoSettle, NoResult)
    /\ stderr' = <<>>
    /\ UNCHANGED <<variant, GITHUB_TOKEN, inflight, launch>>

\* A git-backed handler is called: it builds its command line and calls
\* executeGitCommand, which starts the child process and blocks; or an
\* exception escapes before that.
StartGit(tool, params) ==
    /\ ~Blocked
    /\ IdleSlots # {}
    /\ tool \in GitTools
    /\ Valid(tool, params)
    /\ LET s    == FreeSlot
           prep == GitPrepare(variant, tool, GITHUB_TOKEN, params)
       IN  IF prep.threw
           THEN /\ step' = Step("threw", s, tool, params, <<>>, <<>>, FALSE,
                                NoRequest, NoOutcome, NoHttp, NoSettle, Thrown(prep.message))
                /\ UNCHANGED inflight
           ELSE /\ step' = Step("started", s, tool, params, prep.command,
                                prep.cloneUrl, TRUE, NoRequest, NoOutcome, NoHttp, NoSettle,
                                NoResult)
                /\ inflight' = [inflight EXCEPT ![s] =
                                  [pc |-> "exec", tool |-> tool, params |-> params,
                                   command |-> prep.command,
                                   cloneUrl |-> prep.cloneUrl,
                                   env |-> ExecEnv(variant)]]
    /\ stderr' = <<>>
    /\ UNCHANGED <<variant, GITHUB_TOKEN, launch>>

\* The child process ends; executeGitCommand completes and the handler
\* returns its ToolResult (an exception out of executeGitCommand would
\* escape the handler, which has no try block of its own).
ExecExit(s, proc) ==
    /\ inflight[s].pc = "exec"
    /\ LET inv == inflight[s]
           c   == executeGitCommand(inv.command, proc)
       IN  step' = IF c.raised
                   THEN Step("threw", s, inv.tool, inv.params, inv.command,
                             inv.cloneUrl, FALSE, NoRequest, NoOutcome, NoHttp,
                             NoSettle, Thrown(c.message))
                   ELSE Step("returned", s, inv.tool, inv.params, inv.command,
                             inv.cloneUrl, FALSE, NoRequest, c.outcome, NoHttp,
                             NoSettle, GitFinish(inv, c.outcome))
    /\ inflight' = [inflight EXCEPT ![s] = Idle]
    /\ stderr' = <<>>
    /\ UNCHANGED <<variant, GITHUB_TOKEN, launch>>

\* An API-backed handler is called: it returns at once, or issues its
\* request and is suspended at its await.
StartApi(tool, params) ==
    /\ ~Blocked
    /\ IdleSlots # {}
    /\ tool \in ApiTools
    /\ Valid(tool, params)
    /\ LET s  == FreeSlot
           st == APIStart(variant, tool, GITHUB_TOKEN, params)
       IN  /\ IF st.done
              THEN /\ step' = Step("returned", s, tool, params, <<>>, <<>>, FALSE,
                                   NoRequest, NoOutcome, NoHttp, NoSettle, st.result)
                   /\ UNCHANGED inflight
              ELSE /\ step' = Step("started", s, tool, params, <<>>, <<>>, FALSE,
                                   st.request, NoOutcome, NoHttp, NoSettle, NoResult)
                   /\ inflight' = [inflight EXCEPT ![s] =
                                     [pc |-> "awaiting", tool |-> tool,
                                      params |-> params, request |-> st.request]]
           /\ stderr' = st.log
    /\ UNCHANGED <<variant, GITHUB_TOKEN, launch>>

\* The HTTPS exchange of a suspended handler ends; the promise settles and
\* the handler runs to its return.
HttpSettle(s, http) ==
    /\ ~Blocked
    /\ inflight[s].pc = "awaiting"
    /\ LET inv     == inflight[s]
           settled == Settle(variant, http)
           fin     == APIFinish(variant, inv.tool, inv.params, settled)
       IN  /\ step' = Step("returned", s, inv.tool, inv.params, <<>>, <<>>, FALSE,
                           NoRequest, NoOutcome, http, settled, fin.result)
           /\ stderr' = settled.log \o fin.log
    /\ inflight' = [inflight EXCEPT ![s] = Idle]
    /\ UNCHANGED <<variant, GITHUB_TOKEN, launch>>

Next ==
    \/ \E tool \in ToolsOf(variant) : \E params \in Inputs(tool) :
          Reject(tool, params)
    \/ \E tool \in ToolsOf(variant) : \E params \in Inputs(tool) :
          StartGit(tool, params)
    \/ \E s \in Slots : \E proc \in ProcOutcomes : ExecExit(s, proc)
    \/ \E tool \in ToolsOf(variant) : \E params \in Inputs(tool) :
          StartApi(tool, params)
    \/ \E s \in Slots : \E http \in HttpOutcomes : HttpSettle(s, http)

Spec == Init /\ [][Next]_vars

(***************************************************************************)
(* Start-up specification: the process is launched through start.sh or by  *)
(* running the server file directly, with any environment and files.       *)
(***************************************************************************)
EnvValues  == {Unset, SetTo(<<>>), SetTo(<<"ghp_ENV">>)}
CwdFiles   == {Absent, FileOf(<<>>), FileOf(<<"ghp_CWD", "\n">>)}
HomeFiles  == {Absent, FileOf(<<>>), FileOf(<<"ghp_HOME", "\n">>)}

InitStart ==
    /\ variant \in Variants
    /\ GITHUB_TOKEN = NoToken
    /\ inflight = [s \in Slots |-> Idle]
    /\ step = Step("init", 0, "none", NoParams, <<>>, <<>>, FALSE, NoRequest,
                   NoOutcome, NoHttp, NoSettle, NoResult)
    /\ stderr = <<>>
    /\ \E via \in {"start.sh", "node"}, e \in EnvValues, c \in CwdFiles,
          h \in HomeFiles :
          launch = [pc |-> IF via = "start.sh" THEN "sh:files" ELSE "node",
                    via |-> via, env0 |-> e, env |-> e,
                    cwdFile |-> c, homeFile |-> h]

\* start.sh lines 12-22
ShTokenFile ==
    /\ launch.pc = "sh:files"
    /\ LET r == tokenFileLookup(launch.env, launch.cwdFile, launch.homeFile)
       IN  /\ launch' = [launch EXCEPT !.pc = "sh:verify", !.env = r.env]
           /\ stderr' = r.log
    /\ UNCHANGED <<variant, GITHUB_TOKEN, inflight, step>>

\* start.sh lines 24-29
ShVerify ==
    /\ launch.pc = "sh:verify"
    /\ launch' = [launch EXCEPT !.pc = "node"]
    /\ stderr' = verifyLog(launch.env)
    /\ UNCHANGED <<variant, GITHUB_TOKEN, inflight, step>>

\* node index.js: the module-level code reads the environment and logs
ModuleLoad ==
    /\ launch.pc = "node"
    /\ GITHUB_TOKEN' = readToken(launch.env)
    /\ launch' = [launch EXCEPT !.pc = "serving"]
    /\ stderr' = startupLog(variant, readToken(launch.env))
    /\ UNCHANGED <<variant, inflight, step>>

NextStart == ShTokenFile \/ ShVerify \/ ModuleLoad

SpecStart == InitStart /\ [][NextStart]_vars

(***************************************************************************)
(* Properties                                                              *)
(***************************************************************************)
\* the failure description each tool's failure text begins with
FailurePrefix(tool) ==
    CASE tool = "git-clone"           -> <<"Failed to clone repository: ">>
      [] tool = "git-status"          -> <<"Failed to get git status: ">>
      [] tool = "git-commit"          -> <<"Failed to commit changes: ">>
      [] tool = "git-push"            -> <<"Failed to push changes: ">>
      [] tool = "github-create-repo"  -> <<"Failed to create repository: ">>
      [] tool = "github-list-repos"   -> <<"Failed to list repositories: ">>
      [] tool = "github-repo-info"    -> <<"Failed to get repository details: ">>
      [] tool = "github-search-repos" -> <<"Failed to search repositories: ">>

\* the latest step is a handler that ran (validation passed)
HandlerRan == step.kind \in {"started", "returned", "threw"}

\* the latest step ended a handler whose external call failed
SubprocessFailed ==
    step.kind = "returned" /\ step.tool \in GitTools /\ ~step.outcome.success

ApiFailed ==
    /\ step.kind = "returned"
    /\ \/ step.http.kind = "error"
       \/ step.http.kind = "response" /\ step.http.status >= 400
       \/ /\ step.http.kind = "response" /\ step.http.status = 200
          /\ step.http.body # <<>> /\ ~JSONparse(step.http.body).ok

\* C1: every handler invoked with valid parameters completes with a ToolResult
\* and never throws; every failure (subprocess, API status, malformed body,
\* network error, unparsable clone URL) yields a text that begins with the
\* tool's failure description.
C1_HandlersNeverThrow ==
    HandlerRan =>
        /\ step.kind # "threw"
        /\ (SubprocessFailed \/ ApiFailed) =>
              /\ step.result.kind = "result"
              /\ StartsWith(step.result.text, FailurePrefix(step.tool))

CredentialTools == {"github-list-repos", "github-create-repo"}

\* C2: without a credential, list-repositories and create-repository return
\* the credential-missing text and issue no network request.
C2_NoCredentialNoRequest ==
    /\ (GITHUB_TOKEN = NoToken /\ HandlerRan /\ step.tool \in CredentialTools) =>
          /\ step.kind = "returned"
          /\ step.result.kind = "result"
          /\ step.result.text =
                (IF step.tool = "github-list-repos"
                 THEN <<"GitHub token not configured. Please set the GITHUB_TOKEN environment variable to access repositories.">>
                 ELSE <<"GitHub token not configured. Please set the GITHUB_TOKEN environment variable.">>)
          /\ step.request.hostname = "none"
          /\ step.http.kind = "none"
          /\ \A i \in 1..Len(stderr) :
                ~StartsWith(stderr[i], <<"Making GitHub API request to: ">>)
    /\ GITHUB_TOKEN = NoToken =>
          \A s \in Slots :
              inflight[s].pc = "awaiting" => inflight[s].tool \notin CredentialTools

C2_Witness ==
    /\ GITHUB_TOKEN = NoToken
    /\ step.kind = "returned"
    /\ step.tool = "github-create-repo"
    /\ Has(step.params, "private")
    /\ step.result.kind = "result"

\* the credential's lexeme occurs in a text
Mentions(text, token) == \E i \in 1..Len(text) : <<text[i]>> = token

StringParams == {"url", "directory", "message", "remote", "branch", "name",
                 "description", "repo", "query"}

ParamsMention(params, token) ==
    \E n \in DOMAIN params \cap StringParams : Mentions(params[n], token)

\* C3: the credential value occurs in no line written to the diagnostic
\* stream and in no ToolResult text, unless the caller's parameters contain it.
C3_CredentialNeverEmitted ==
    (GITHUB_TOKEN # NoToken /\ ~ParamsMention(step.params, GITHUB_TOKEN)) =>
        /\ \A i \in 1..Len(stderr) : ~Mentions(stderr[i], GITHUB_TOKEN)
        /\ ~Mentions(step.result.text, GITHUB_TOKEN)

\* the latest step carries a clone command line (the Command Runner was or
\* is being invoked for git-clone)
CloneCommanded ==
    step.tool = "git-clone" /\ step.kind \in {"started", "returned"}

\* the command line of a clone of the given URL text
CloneCommandFor(urlText, params) ==
    <<"git clone", " ">> \o urlText
    \o (IF Has(params, "directory") THEN <<" ">> \o params["directory"] ELSE <<>>)

\* C4: the credential is inserted as the URL's user-info exactly when a
\* credential is present, the URL's host is github.com and its scheme is
\* https; in every other case the command line carries the caller's URL
\* unchanged.
C4_EmbedExactlyForGithubHttps ==
    CloneCommanded =>
        LET url    == step.params["url"]
            parsed == ParseURL(url)
            should == /\ GITHUB_TOKEN # NoToken
                      /\ parsed.ok
                      /\ parsed.host = "github.com"
                      /\ parsed.protocol = "https:"
        IN  IF should
            THEN step.command =
                    CloneCommandFor(<<"https://">> \o GITHUB_TOKEN \o <<"@", "github.com">>
                                    \o parsed.pathname, step.params)
            ELSE step.command = CloneCommandFor(url, step.params)

\* C5: with a credential set and a url that does not contain it, the success
\* text of clone-repository is built from the caller's url, is the text
\* produced without a credential, and does not contain the credential.
C5_CloneSuccessTextUsesCallerUrl ==
    ( /\ step.kind = "returned" /\ step.tool = "git-clone"
      /\ step.outcome.success
      /\ GITHUB_TOKEN # NoToken
      /\ ~Mentions(step.params["url"], GITHUB_TOKEN) ) =>
        /\ step.result.text =
              <<"Successfully cloned repository from ">> \o step.params["url"]
              \o (IF Has(step.params, "directory")
                  THEN <<" to ">> \o step.params["directory"] ELSE <<>>)
              \o <<".">>
        /\ ~Mentions(step.result.text, GITHUB_TOKEN)

C5_Witness ==
    /\ step.kind = "returned" /\ step.tool = "git-clone"
    /\ step.outcome.success
    /\ GITHUB_TOKEN # NoToken
    /\ Mentions(step.cloneUrl, GITHUB_TOKEN)
    /\ ~Mentions(step.params["url"], GITHUB_TOKEN)
    /\ Has(step.params, "directory")

\* C6: for every git-backed tool and every CommandOutcome with success=false
\* the text is exactly the tool's failure prefix followed by the captured
\* error message.
C6_FailureTextIsPrefixThenError ==
    SubprocessFailed =>
        /\ step.result.kind = "result"
        /\ step.result.text = FailurePrefix(step.tool) \o step.outcome.error
        /\ StartsWith(step.result.text, FailurePrefix(step.tool))
        /\ EndsWith(step.result.text, step.outcome.error)

C6_Witness ==
    /\ SubprocessFailed
    /\ step.tool = "git-push"
    /\ Len(step.outcome.error) > 1

\* the latest step handled a completed HTTPS response
ResponseHandled == step.kind = "returned" /\ step.http.kind = "response"

StatusErrorMessage(http) ==
    <<"GitHub API returned ", ToString(http.status), ": ">> \o http.body

\* C7: for every completed response, the API client rejects with the status
\* code and the raw body when the status is >= 400; for every status below
\* 400 it resolves with the parsed body, or rejects with a parse-failure
\* message (distinct from the status-error message) when the body is
\* malformed.
C7_RejectOnlyFrom400 ==
    ResponseHandled =>
        LET http   == step.http
            parsed == JSONparse(http.body)
        IN  /\ http.status >= 400 =>
                  /\ ~step.settled.resolved
                  /\ step.settled.message = StatusErrorMessage(http)
            /\ (http.status < 400 /\ parsed.ok) =>
                  /\ step.settled.resolved
                  /\ step.settled.value = parsed.value
            /\ (http.status < 400 /\ http.body # <<>> /\ ~parsed.ok) =>
                  /\ ~step.settled.resolved
                  /\ ~StartsWith(step.settled.message, <<"GitHub API returned ">>)
                  /\ EndsWith(step.settled.message, parsed.message)

\* C8: the Command Runner never raises to its caller; it returns exactly one
\* of {success: true, output} and {success: false, error}.
C8_RunnerReturnsDiscriminatedOutcome ==
    /\ step.kind = "threw" => step.command = <<>>
    /\ (step.kind = "returned" /\ step.tool \in GitTools) =>
          \/ /\ DOMAIN step.outcome = {"success", "output"}
             /\ step.outcome.success = TRUE
          \/ /\ DOMAIN step.outcome = {"success", "error"}
             /\ step.outcome.success = FALSE

C8_Witness ==
    /\ step.kind = "returned" /\ step.tool = "git-status"
    /\ ~step.outcome.success
    /\ step.outcome.error = <<"spawnSync /bin/sh ENOENT">>

\* the required parameter of each tool, as the spec's table lists them
RequiredParam(tool) ==
    CASE tool = "git-clone"           -> {"url"}
      [] tool = "git-commit"          -> {"message"}
      [] tool = "github-create-repo"  -> {"name"}
      [] tool = "github-repo-info"    -> {"repo"}
      [] tool = "github-search-repos" -> {"query"}
      [] OTHER                        -> {}

OmitsRequired(tool, params) == ~(RequiredParam(tool) \subseteq DOMAIN params)

\* C9: an invocation that omits a required parameter is rejected before its
\* handler executes: no child process is started and no request is issued
\* for it.
C9_MissingRequiredNeverRuns ==
    /\ (step.kind # "init" /\ OmitsRequired(step.tool, step.params)) =>
          /\ step.kind = "rejected"
          /\ ~step.spawned
          /\ step.command = <<>>
          /\ step.request.hostname = "none"
          /\ step.result.kind = "none"
    /\ \A s \in Slots :
          inflight[s].pc # "idle" =>
              ~OmitsRequired(inflight[s].tool, inflight[s].params)

C9_Witness ==
    /\ step.kind = "rejected"
    /\ step.tool = "github-search-repos"
    /\ OmitsRequired(step.tool, step.params)
    /\ Has(step.params, "limit")
    /\ \E s \in Slots : inflight[s].pc = "awaiting"

InFlight == {s \in Slots : inflight[s].pc # "idle"}

\* C10 (as stated): invocations are processed one at a time; no handler starts
\* before the earlier invocation has completed, also while the earlier handler
\* is suspended awaiting a network response.
C10_OneInvocationAtATime == Cardinality(InFlight) <= 1

\* C10 (amended): only the synchronous child process serializes.  While a
\* handler's child process is running no other handler starts, resumes or
\* returns, and at most one child process runs at a time; a handler suspended
\* at its await does not hold back later invocations.
C10_OnlyChildProcessSerializes ==
    [][ /\ Cardinality({s \in Slots : inflight'[s].pc = "exec"}) <= 1
        /\ \A s \in Slots :
              inflight[s].pc = "exec" =>
                  /\ \A t \in Slots \ {s} : inflight'[t] = inflight[t]
                  /\ step'.slot = s ]_vars

C10_Witness ==
    \E s, t \in Slots :
        /\ inflight[s].pc = "awaiting"
        /\ inflight[t].pc = "exec"
        /\ step.kind = "started" /\ step.slot = t

\* the credential the claim prescribes: the environment value when it is
\* set (non-empty), else the first non-empty of the two files, else none
EnvFirstCredential(l) ==
    IF l.env0.set /\ l.env0.value # <<>> THEN l.env0.value
    ELSE IF l.cwdFile.exists /\ l.cwdFile.content # <<>>
    THEN <<Head(l.cwdFile.content)>>
    ELSE IF l.homeFile.exists /\ l.homeFile.content # <<>>
    THEN <<Head(l.homeFile.content)>>
    ELSE <<>>

\* C11 (as stated): the environment variable is looked up first and the
\* credential files only if it is unset; the first non-empty source wins and
\* an environment value that is set is never replaced by file contents.
C11_EnvironmentFirst ==
    (launch.pc = "serving" /\ launch.via = "start.sh") =>
        GITHUB_TOKEN = EnvFirstCredential(launch)

\* the credential start.sh resolves: the first file that exists, whatever it
\* holds, else the environment value
FileFirstCredential(l) ==
    IF l.cwdFile.exists
    THEN (IF l.cwdFile.content = <<>> THEN <<>> ELSE <<Head(l.cwdFile.content)>>)
    ELSE IF l.homeFile.exists
    THEN (IF l.homeFile.content = <<>> THEN <<>> ELSE <<Head(l.homeFile.content)>>)
    ELSE IF l.env0.set THEN l.env0.value ELSE <<>>

\* C11 (amended): start.sh consults the credential file first (script
\* directory, then home); the first file that exists supplies the credential
\* and replaces the environment value, even when the file is empty; the
\* environment value is used only when neither file exists.  Started
\* directly, the server uses the environment value alone.  With no credential
\* the process still starts serving, with an empty credential.
C11_FileFirst ==
    launch.pc = "serving" =>
        /\ launch.via = "start.sh" => GITHUB_TOKEN = FileFirstCredential(launch)
        /\ launch.via = "node" =>
              GITHUB_TOKEN = (IF launch.env0.set THEN launch.env0.value ELSE <<>>)

C11_Witness ==
    /\ launch.pc = "serving" /\ launch.via = "start.sh"
    /\ launch.env0 = SetTo(<<"ghp_ENV">>)
    /\ launch.cwdFile.exists
    /\ GITHUB_TOKEN = <<"ghp_CWD">>

AnonymousTools == {"github-repo-info", "github-search-repos"}

\* C12: without a credential repository-info and search-repositories do not
\* short-circuit: the handler issues one API request without an authorization
\* header and returns only after that request ended, never with the
\* credential-missing text; with a credential the request carries the
\* authorization header.
C12_AnonymousAccess ==
    (HandlerRan /\ step.tool \in AnonymousTools) =>
        /\ step.kind # "threw"
        /\ step.kind = "started" =>
              /\ step.request.hostname = "api.github.com"
              /\ step.request.authorization =
                    (IF GITHUB_TOKEN = NoToken THEN <<>>
                     ELSE <<"token ">> \o GITHUB_TOKEN)
        /\ step.kind = "returned" =>
              /\ step.http.kind # "none"
              /\ ~StartsWith(step.result.text, <<"GitHub token not configured.">>)
              /\ step.result.text # <<"GitHub token not configured. Please set the GITHUB_TOKEN environment variable.">>
              /\ step.result.text # <<"GitHub token not configured. Please set the GITHUB_TOKEN environment variable to access repositories.">>

\* C13: every child process the Command Runner starts, for every git-backed
\* tool, runs with the overrides that disable credential prompts
\* (GIT_ASKPASS) and suppress the system and global git configuration.
C13_ChildEnvironmentOverridden ==
    \A s \in Slots :
        inflight[s].pc = "exec" =>
            {"GIT_ASKPASS", "GIT_CONFIG_NOSYSTEM", "GIT_CONFIG_NOGLOBAL"}
                \subseteq inflight[s].env

\* the lines of a text: the lexemes between "\n" lexemes
RECURSIVE SplitLines(_)
SplitLines(text) ==
    IF \A i \in 1..Len(text) : text[i] # "\n" THEN <<text>>
    ELSE LET k == CHOOSE i \in 1..Len(text) :
                     text[i] = "\n" /\ \A j \in 1..(i - 1) : text[j] # "\n"
         IN  <<SubSeq(text, 1, k - 1)>> \o SplitLines(SubSeq(text, k + 1, Len(text)))

InfoLabels ==
    << "Repository: ", "Description: ", "Stars: ", "Forks: ", "Watchers: ",
       "Open Issues: ", "Created: ", "Last Updated: ", "Language: ",
       "License: ", "Visibility: ", "URL: " >>

\* a field of a response object is absent: missing or null
FieldAbsent(obj, name) ==
    name \notin DOMAIN obj.fields \/ obj.fields[name].t = "null"

\* the latest step is repository-info formatting a repoDetails object
InfoFormatted ==
    /\ step.kind = "returned" /\ step.tool = "github-repo-info"
    /\ step.settled.resolved
    /\ step.settled.value.t = "object"

\* C14: repository-info turns a repoDetails object into exactly 12 lines in
\* the order Repository, Description, Stars, Forks, Watchers, Open Issues,
\* Created, Last Updated, Language, License, Visibility, URL; an absent
\* description reads "No description", an absent language or license reads
\* "Not specified", and the text is a function of the object alone.
C14_TwelveLinesInOrder ==
    InfoFormatted =>
        LET obj   == step.settled.value
            lines == SplitLines(step.result.text)
        IN  /\ Len(lines) = 12
            /\ \A i \in 1..12 : Len(lines[i]) >= 2 /\ lines[i][1] = InfoLabels[i]
            /\ lines[2] = (IF FieldAbsent(obj, "description")
                           THEN <<"Description: ", "No description">>
                           ELSE <<"Description: ">> \o obj.fields["description"].s)
            /\ lines[9] = (IF FieldAbsent(obj, "language")
                           THEN <<"Language: ", "Not specified">>
                           ELSE <<"Language: ">> \o obj.fields["language"].s)
            /\ lines[10] = (IF FieldAbsent(obj, "license")
                            THEN <<"License: ", "Not specified">>
                            ELSE <<"License: ">> \o obj.fields["license"].fields["name"].s)
            /\ \A o \in {RepoFull, RepoMin} :
                  obj = o => step.result.text = infoFinish(Resolved(o, <<>>)).result.text

C14_Witness ==
    /\ InfoFormatted
    /\ step.http.body = <<"{repo-min}">>
    /\ step.settled.value.fields["description"].t = "null"
    /\ Len(SplitLines(step.result.text)) = 12

\* the latest step is search-repositories handling a parsed response
SearchAnswered ==
    /\ step.kind = "returned" /\ step.tool = "github-search-repos"
    /\ step.settled.resolved
    /\ step.settled.value.t \in {"object", "array"}

\* the items of a search response (empty when the list is missing)
ItemsOf(value) ==
    IF value.t = "object" /\ "items" \in DOMAIN value.fields
       /\ value.fields["items"].t = "array"
    THEN value.fields["items"].elems ELSE <<>>

\* C15: search-repositories answers a response with no items (an empty or
\* missing items list) with 'No repositories found matching "{query}".' and
\* does not throw; with items it returns a list numbered from 1, one line per
\* item in response order.
C15_SearchResultText ==
    /\ (HandlerRan /\ step.tool = "github-search-repos") => step.kind # "threw"
    /\ SearchAnswered =>
          LET items == ItemsOf(step.settled.value)
              query == step.params["query"]
          IN  IF items = <<>>
              THEN step.result.text =
                      <<"No repositories found matching \"">> \o query \o <<"\".">>
              ELSE LET head  == <<"GitHub repositories matching \"">> \o query
                                \o <<"\":\n">>
                       lines == SplitLines(SubSeq(step.result.text, Len(head) + 1,
                                                  Len(step.result.text)))
                   IN  /\ StartsWith(step.result.text, head)
                       /\ Len(lines) = Len(items)
                       /\ \A i \in 1..Len(items) :
                             StartsWith(lines[i],
                                        <<ToString(i), ". ">>
                                        \o items[i].fields["full_name"].s)

C15_Witness ==
    /\ SearchAnswered
    /\ step.http.body = <<"{}">>
    /\ ItemsOf(step.settled.value) = <<>>
    /\ step.result.kind = "result"
    /\ Has(step.params, "limit")

(***************************************************************************)
(* execSync hands the command line to /bin/sh.  The shell reads it as an   *)
(* and-or list: simple commands separated by the operators && and ||,      *)
(* which are ordinary characters inside double quotes.  The list runs      *)
(* left to right; a command after && runs when the status so far is zero,  *)
(* a command after || when it is non-zero.                                 *)
(***************************************************************************)
ShellOperators == {" && ", " || "}

\* position i of the command line is inside a double-quoted string
Quoted(cmd, i) ==
    Cardinality({j \in 1..(i - 1) :
                    cmd[j] = "\"" /\ ~(j > 1 /\ cmd[j - 1] = "\\")}) % 2 = 1

OperatorAt(cmd) == {i \in 1..Len(cmd) : cmd[i] \in ShellOperators /\ ~Quoted(cmd, i)}

\* the number of simple commands of the list
ShellCount(cmd) == Cardinality(OperatorAt(cmd)) + 1

\* the position of the k-th operator
OperatorPos(cmd, k) ==
    CHOOSE i \in OperatorAt(cmd) :
        Cardinality({j \in OperatorAt(cmd) : j < i}) = k - 1

\* the k-th simple command
ShellCommand(cmd, k) ==
    SubSeq(cmd,
           IF k = 1 THEN 1 ELSE OperatorPos(cmd, k - 1) + 1,
           IF k = ShellCount(cmd) THEN Len(cmd) ELSE OperatorPos(cmd, k) - 1)

\* after the first k simple commands: whether the k-th one ran, and whether
\* the status is zero; ok[j] tells whether command j exits 0 when it runs
RECURSIVE ShellRun(_, _, _)
ShellRun(cmd, ok, k) ==
    IF k = 1 THEN [ran |-> TRUE, zero |-> ok[1]]
    ELSE LET before == ShellRun(cmd, ok, k - 1)
             ran    == IF cmd[OperatorPos(cmd, k - 1)] = " && "
                       THEN before.zero ELSE ~before.zero
         IN  [ran |-> ran, zero |-> IF ran THEN ok[k] ELSE before.zero]

\* the latest step belongs to a commit-changes invocation that built its
\* command line
CommitBuilt == step.tool = "git-commit" /\ step.kind \in {"started", "returned"}

\* the command line the claim describes for the parameters of the step
CommitStepsInOrder ==
    LET dir == IF Has(step.params, "directory") THEN step.params["directory"]
               ELSE <<".">>
        add == IF Has(step.params, "add_all") THEN step.params["add_all"] ELSE TRUE
    IN  step.command =
            <<"cd", " ">> \o dir \o <<" && ">>
            \o (IF add THEN <<"git add .", " && ">> ELSE <<>>)
            \o <<"git commit -m ", "\"">>
            \o EscapeQuotes(step.params["message"]) \o <<"\"">>

\* whatever the simple commands do, one runs only after every earlier one
\* has run and exited 0
RunsOnlyAfterSuccess(cmd) ==
    LET n == ShellCount(cmd)
    IN  \A ok \in [1..n -> BOOLEAN] :
           \A k \in 2..n :
              ShellRun(cmd, ok, k).ran =>
                 \A j \in 1..(k - 1) : ShellRun(cmd, ok, j).ran /\ ok[j]

CommitFailureText ==
    (step.kind = "returned" /\ ~step.outcome.success)
        => step.result.text = <<"Failed to commit changes: ">> \o step.outcome.error

\* C16: commit-changes builds its steps in the order cd {directory or "."},
\* then "git add ." iff add_all is true (true when omitted), then git commit
\* with the message; a step runs only if every earlier step succeeded, so
\* the commit is never attempted after a failed directory change or a failed
\* add; a failing step yields "Failed to commit changes: {error}".
C16_CommitStepsChained ==
    CommitBuilt =>
        /\ CommitStepsInOrder
        /\ RunsOnlyAfterSuccess(step.command)
        /\ CommitFailureText

\* The same three properties for invocations whose directory holds no shell
\* operator: the part of C16 that the code does satisfy.
CommitStepsChainedForPlainDirectory ==
    (CommitBuilt /\ (Has(step.params, "directory")
                        => \A i \in 1..Len(step.params["directory"]) :
                              step.params["directory"][i] \notin ShellOperators))
        => /\ CommitStepsInOrder
           /\ ShellCount(step.command)
                 = (IF Default(step.params, "add_all", TRUE) THEN 3 ELSE 2)
           /\ ShellCommand(step.command, 1)
                 = <<"cd", " ">> \o StrOr(step.params, "directory", <<".">>)
           /\ ShellCommand(step.command, ShellCount(step.command))[1] = "git commit -m "
           /\ RunsOnlyAfterSuccess(step.command)
           /\ CommitFailureText

====
